---- MODULE Spec2Model ----
(***************************************************************************)
(* Model of pelican_footnote_linker: link_footnotes and the Footnote       *)
(* aggregate (pelican/plugins/footnote_linker/footnote_linker.py).         *)
(*                                                                         *)
(* A content string is a sequence of tokens.  Every token stands for one   *)
(* literal piece of text with a known width in characters; the regular     *)
(* expressions of the plug-in only ever match at token boundaries.  A      *)
(* token with o > 0 is what is left of that text after a slice dropped     *)
(* its first o characters; such a remainder matches no pattern.            *)
(***************************************************************************)
EXTENDS Integers, Sequences, FiniteSets, TLC

\* ---------------------------------------------------------------- bounds
MaxLen    == 5      \* longest content drawn over the whole token alphabet
MaxCites  == 3      \* citations in a well-formed document
MaxBlocks == 2      \* footnote paragraphs in a well-formed document
MaxRuns   == 2      \* invocations of link_footnotes on one item

Keys == {1, 5}      \* the digits of the [ref<digits>] markers in use

\* ------------------------------------------------------ program constants
REF_SUBNAMES ==
  << "a", "b", "c", "d", "e", "f", "g", "h", "i", "j", "k", "l", "m",
     "n", "o", "p", "q", "r", "s", "t", "u", "v", "w", "x", "y", "z" >>

\* ----------------------------------------------------------------- tokens
Tok(t, key, href, id, num, glyph) ==
  [t |-> t, key |-> key, href |-> href, id |-> id, num |-> num,
   glyph |-> glyph, o |-> 0]

Txt    == Tok("txt", 0, <<>>, <<>>, 0, "")         \* x
Sp     == Tok("sp", 0, <<>>, <<>>, 0, "")          \* one ordinary space
Nbsp   == Tok("nbsp", 0, <<>>, <<>>, 0, "")        \* &nbsp;
POpen  == Tok("p", 0, <<>>, <<>>, 0, "")           \* <p>
PClose == Tok("ep", 0, <<>>, <<>>, 0, "")          \* </p>
Heading == Tok("h", 0, <<>>, <<>>, 0, "")          \* <h2>Footnotes</h2>
Ref(k) == Tok("ref", k, <<>>, <<>>, 0, "")         \* [ref<k>]
\* [<a href="#{href}" id="{id}">{num}</a>]
Cite(href, id, num) == Tok("cite", 0, href, id, num, "")
\* <p id="{id}">[{num}]      (the space that follows is a Sp token)
PId(id, num) == Tok("pid", 0, <<>>, id, num, "")
\* <a href="#{href}">^{glyph}</a>
BackLink(href, glyph) == Tok("bl", 0, href, <<>>, 0, glyph)

Digits(n) == IF n < 10 THEN 1 ELSE IF n < 100 THEN 2 ELSE 3

\* number of characters of an identifier "note-<n>" or "ref-<n><letter>"
IdWidth(id) ==
  IF id = <<>> THEN 0
  ELSE IF id[1] = "note-" THEN 5 + Digits(id[2])
  ELSE 4 + Digits(id[2]) + 1

FullWidth(tok) ==
  CASE tok.t = "txt"  -> 1
    [] tok.t = "sp"   -> 1
    [] tok.t = "nbsp" -> 6
    [] tok.t = "p"    -> 3
    [] tok.t = "ep"   -> 4
    [] tok.t = "h"    -> 18
    [] tok.t = "ref"  -> 5 + Digits(tok.key)
    [] tok.t = "cite" -> 24 + IdWidth(tok.href) + IdWidth(tok.id) + Digits(tok.num)
    [] tok.t = "pid"  -> 11 + IdWidth(tok.id) + Digits(tok.num)
    [] tok.t = "bl"   -> 17 + IdWidth(tok.href) + (IF tok.glyph = "" THEN 0 ELSE 1)

Width(tok) == FullWidth(tok) - tok.o

RECURSIVE CharLen(_)
CharLen(s) == IF s = <<>> THEN 0 ELSE Width(Head(s)) + CharLen(Tail(s))

\* s[c:] of Python, c counted in characters
RECURSIVE CharSlice(_, _)
CharSlice(s, c) ==
  IF s = <<>> \/ c <= 0 THEN s
  ELSE IF Width(Head(s)) <= c THEN CharSlice(Tail(s), c - Width(Head(s)))
  ELSE << [Head(s) EXCEPT !.o = @ + c] >> \o Tail(s)

\* ------------------------------------------------------ regular expressions
IsMarker(tok) == tok.t = "ref" /\ tok.o = 0       \* \[ref\d+\]
IsHeading(tok) == tok.t = "h" /\ tok.o = 0        \* <h[234]>Footnotes
IsPOpen(tok) == tok.t = "p" /\ tok.o = 0
IsPClose(tok) == tok.t = "ep" /\ tok.o = 0
IsSpace(tok) == tok.t = "sp" /\ tok.o = 0

NoMatch == [start |-> 0, pos |-> 0, within |-> 0, end |-> 0, endc |-> 0]

\* re_reference.finditer: one match per marker, left to right; group(1) is
\* the text since the previous match, group(2) the marker at pos.
RECURSIVE RefFinditer(_, _)
RefFinditer(s, from) ==
  LET hits == {i \in from..Len(s) : IsMarker(s[i])}
  IN IF hits = {} THEN <<>>
     ELSE LET i == CHOOSE x \in hits : \A y \in hits : x <= y
          IN << [start |-> from, pos |-> i, within |-> 0, end |-> i,
                 endc |-> CharLen(SubSeq(s, 1, i))] >>
             \o RefFinditer(s, i + 1)

make_reference_regex(s) == RefFinditer(s, 1)

\* re_footnote.finditer: the earliest <p> directly followed by a marker and
\* by some later </p>; the paragraph ends at the first </p> after the marker.
RECURSIVE FootFinditer(_, _)
FootFinditer(s, from) ==
  LET hits == {i \in from..(Len(s) - 2) :
                 /\ IsPOpen(s[i]) /\ IsMarker(s[i + 1])
                 /\ \E j \in (i + 2)..Len(s) : IsPClose(s[j])}
  IN IF hits = {} THEN <<>>
     ELSE LET i == CHOOSE x \in hits : \A y \in hits : x <= y
              ends == {j \in (i + 2)..Len(s) : IsPClose(s[j])}
              j == CHOOSE x \in ends : \A y \in ends : x <= y
          IN << [start |-> from, pos |-> i + 1, within |-> i + 2, end |-> j,
                 endc |-> CharLen(SubSeq(s, 1, j))] >>
             \o FootFinditer(s, j + 1)

make_footnote_regex(s) == FootFinditer(s, 1)

\* RE_FOOTNOTE_HEADING.search(...).span()[0], in characters; -1 when absent
HeadingSearch(s) ==
  LET hits == {i \in 1..Len(s) : IsHeading(s[i])}
  IN IF hits = {} THEN -1
     ELSE LET i == CHOOSE x \in hits : \A y \in hits : x <= y
          IN CharLen(SubSeq(s, 1, i - 1))

\* ------------------------------------------------------------- Footnote
Footnote(num) == [num |-> num, html_id |-> <<"note-", num>>, ref_count |-> 0]

\* REF_SUBNAMES[ref_num - 1]; defined only inside the alphabet
InAlphabet(ref_num) == ref_num \in 1..Len(REF_SUBNAMES)
get_ref_name(ref_num) == REF_SUBNAMES[ref_num]

\* the sub-label taken from the citation count instead of ref_num
get_ref_html_id_LastRef(fn, ref_num) ==
  <<"ref-", fn.num, get_ref_name(fn.ref_count)>>
get_ref_html_id(fn, ref_num) == <<"ref-", fn.num, get_ref_name(ref_num)>>

\* the footnotes dict keeps insertion order: a sequence of (name, Footnote)
Names(d) == [i \in 1..Len(d) |-> d[i].name]
Has(d, name) == \E i \in 1..Len(d) : d[i].name = name
Get(d, name) == LET i == CHOOSE x \in 1..Len(d) : d[x].name = name IN d[i].fn
\* ordinals counted from zero
NewFootnoteNum_ZeroBased(d) == Len(d)
\* line 139: len(footnotes) + 1
NewFootnoteNum(d) == Len(d) + 1
Put(d, name) ==
  IF Has(d, name) THEN d
  ELSE Append(d, [name |-> name, fn |-> Footnote(NewFootnoteNum(d))])
\* Footnote.add_ref: self.ref_count += 1
add_ref(d, name) ==
  [i \in 1..Len(d) |->
     IF d[i].name = name
     THEN [d[i] EXCEPT !.fn.ref_count = @ + 1]
     ELSE d[i]]

InSeq(x, s) == \E i \in 1..Len(s) : s[i] = x

RECURSIVE SelectNotIn(_, _)
SelectNotIn(s, excl) ==
  IF s = <<>> THEN <<>>
  ELSE IF InSeq(Head(s), excl) THEN SelectNotIn(Tail(s), excl)
  ELSE <<Head(s)>> \o SelectNotIn(Tail(s), excl)

\* ------------------------------------------------------------------ state
VARIABLES
  content,        \* item._content
  original,       \* item._content as it was when the current call began
  run,            \* number of the current invocation on this item
  pc,             \* "start", "refs", "foots", "done", "raised"
  ref_matches, footnote_matches,
  idx,            \* position of the running for loop in its list of matches
  broke,          \* the reference loop left through its break
  footnotes, footnote_heading_pos,
  processed_content,
  first_footnote, \* NoMatch while the name is unbound
  match,          \* the loop variable shared by both for loops
  content_with_references_processed,
  processed_footnotes, footnotes_without_references,
  warnings        \* what logger.warning received during the current call

vars == << content, original, run, pc, ref_matches, footnote_matches, idx,
           broke, footnotes, footnote_heading_pos, processed_content,
           first_footnote, match, content_with_references_processed,
           processed_footnotes, footnotes_without_references, warnings >>

\* ----------------------------------------------------------------- inputs
Alphabet == {Txt, Sp, POpen, PClose, Heading} \cup {Ref(k) : k \in Keys}

Arbitrary == UNION {[1..n -> Alphabet] : n \in 0..MaxLen}

RECURSIVE CiteRegion(_)
CiteRegion(ks) ==
  IF ks = <<>> THEN <<>> ELSE <<Ref(Head(ks))>> \o CiteRegion(Tail(ks))

RECURSIVE BlockRegion(_)
BlockRegion(ks) ==
  IF ks = <<>> THEN <<>>
  ELSE <<POpen, Ref(Head(ks)), Txt, PClose>> \o BlockRegion(Tail(ks))

WellFormed ==
  {CiteRegion(c) \o <<Heading>> \o BlockRegion(b) :
     c \in UNION {[1..n -> Keys] : n \in 1..MaxCites},
     b \in UNION {[1..n -> Keys] : n \in 0..MaxBlocks}}

\* one key cited n times, up to one citation more than there are sub-labels
MaxRepeat == Len(REF_SUBNAMES) + 1
Repeated ==
  {[i \in 1..n |-> Ref(1)] \o <<Heading, POpen, Ref(1), Txt, PClose>> :
     n \in 1..MaxRepeat}

Contents == Arbitrary \cup WellFormed \cup Repeated

Fresh(c, r) ==
  /\ content = c
  /\ original = c
  /\ run = r
  /\ pc = "start"
  /\ ref_matches = <<>>
  /\ footnote_matches = <<>>
  /\ idx = 1
  /\ broke = FALSE
  /\ footnotes = <<>>
  /\ footnote_heading_pos = -1
  /\ processed_content = <<>>
  /\ first_footnote = NoMatch
  /\ match = NoMatch
  /\ content_with_references_processed = <<>>
  /\ processed_footnotes = <<>>
  /\ footnotes_without_references = <<>>
  /\ warnings = <<>>

Init == \E c \in Contents : Fresh(c, 1)

Warning(msg, n, names) == [msg |-> msg, n |-> n, names |-> names]

\* lines 80-112: find the references, the heading and the footnotes
Scan ==
  /\ pc = "start"
  /\ LET refs == make_reference_regex(content)
         hpos == HeadingSearch(content)
         foots == make_footnote_regex(content)
     IN /\ ref_matches' = refs
        /\ IF Len(refs) = 0
           THEN /\ pc' = "done"
                /\ UNCHANGED << warnings, footnote_heading_pos, footnote_matches >>
           ELSE IF hpos = -1
           THEN /\ pc' = "done"
                /\ warnings' = Append(warnings, Warning("no_heading", Len(refs), <<>>))
                /\ UNCHANGED << footnote_heading_pos, footnote_matches >>
           ELSE IF Len(foots) = 0
           THEN /\ pc' = "done"
                /\ warnings' = Append(warnings, Warning("no_footnotes", Len(refs), <<>>))
                /\ footnote_matches' = foots
                /\ UNCHANGED footnote_heading_pos
           ELSE /\ pc' = "refs"
                /\ footnote_heading_pos' = hpos
                /\ footnote_matches' = foots
                /\ UNCHANGED warnings
  /\ UNCHANGED << content, original, run, idx, broke, footnotes,
                  processed_content, first_footnote, match,
                  content_with_references_processed, processed_footnotes,
                  footnotes_without_references >>

\* lines 122-126: a trailing ordinary space becomes &nbsp;
NonBreaking(content_before) ==
  IF Len(content_before) >= 1 /\ IsSpace(content_before[Len(content_before)])
  THEN Append(SubSeq(content_before, 1, Len(content_before) - 1), Nbsp)
  ELSE content_before

\* line 130: is this marker an in-text reference ?
InText(ref_pos, heading_pos) == ~ (ref_pos >= heading_pos)

\* the link target built from the citation count instead of the ordinal
CitationLink_CountHref(fn, ref_id) ==
  Cite(<<"note-", fn.ref_count>>, ref_id, fn.num)
\* line 146: the link that replaces an in-text reference
CitationLink(fn, ref_id) == Cite(fn.html_id, ref_id, fn.num)

\* lines 114-147: one iteration of the loop over the references
RefStep ==
  /\ pc = "refs" /\ ~ broke /\ idx <= Len(ref_matches)
  /\ LET m == ref_matches[idx]
         content_before == NonBreaking(SubSeq(content, m.start, m.pos - 1))
         footnote_name == content[m.pos].key
         ref_pos == m.endc - Width(content[m.pos])
         fns == add_ref(Put(footnotes, footnote_name), footnote_name)
         fn == Get(fns, footnote_name)
     IN /\ match' = m
        /\ IF ~ InText(ref_pos, footnote_heading_pos)
           THEN /\ first_footnote' = m
                /\ processed_content' =
                     processed_content \o content_before \o <<content[m.pos]>>
                /\ broke' = TRUE
                /\ UNCHANGED << footnotes, idx, pc >>
           ELSE /\ footnotes' = fns
                /\ UNCHANGED << first_footnote, broke >>
                /\ IF InAlphabet(fn.ref_count)
                   THEN /\ processed_content' =
                             processed_content \o content_before
                               \o <<CitationLink(fn, get_ref_html_id(fn, fn.ref_count))>>
                        /\ idx' = idx + 1
                        /\ pc' = pc
                   ELSE \* IndexError out of REF_SUBNAMES[ref_num - 1]
                        /\ processed_content' = processed_content \o content_before
                        /\ pc' = "raised"
                        /\ idx' = idx
  /\ UNCHANGED << content, original, run, ref_matches, footnote_matches,
                  footnote_heading_pos, content_with_references_processed,
                  processed_footnotes, footnotes_without_references, warnings >>

\* lines 149-160: the rest of the content, then the footnotes of the result
RefEnd ==
  /\ pc = "refs" /\ (broke \/ idx > Len(ref_matches))
  /\ IF first_footnote = NoMatch
     THEN \* UnboundLocalError: the loop never reached its break
          /\ pc' = "raised"
          /\ UNCHANGED << content_with_references_processed, footnote_matches,
                          processed_content, idx >>
     ELSE LET content_after == CharSlice(content, first_footnote.endc)
              joined == processed_content \o content_after
          IN /\ content_with_references_processed' = joined
             /\ footnote_matches' = make_footnote_regex(joined)
             /\ processed_content' = <<>>
             /\ idx' = 1
             /\ pc' = "foots"
  /\ UNCHANGED << content, original, run, ref_matches, broke, footnotes,
                  footnote_heading_pos, first_footnote, match,
                  processed_footnotes, footnotes_without_references, warnings >>

\* the back-links with the last citation left out (range one short)
ReferenceLinks_OneShort(fn) ==
  IF fn.ref_count = 1
  THEN <<Sp, BackLink(get_ref_html_id(fn, 1), "")>>
  ELSE <<Sp>> \o [i \in 1..(fn.ref_count - 1) |->
                    BackLink(get_ref_html_id(fn, i), get_ref_name(i))]
\* lines 178-187: the back-links of a footnote
ReferenceLinks(fn) ==
  IF fn.ref_count = 1
  THEN <<Sp, BackLink(get_ref_html_id(fn, 1), "")>>
  ELSE <<Sp>> \o [i \in 1..fn.ref_count |->
                    BackLink(get_ref_html_id(fn, i), get_ref_name(i))]

\* line 190: the paragraph that replaces a footnote with references
FootnoteParagraph(fn, content_within) ==
  <<PId(fn.html_id, fn.num), Sp>> \o content_within \o ReferenceLinks(fn)
    \o <<PClose>>

\* line 173: what is put back for a footnote without references
Unreferenced(s, m) == SubSeq(s, m.start, m.end)

\* lines 162-191: one iteration of the loop over the footnotes
FootStep ==
  /\ pc = "foots" /\ idx <= Len(footnote_matches)
  /\ LET s == content_with_references_processed
         m == footnote_matches[idx]
         content_before == SubSeq(s, m.start, m.pos - 2)
         footnote_name == s[m.pos].key
         content_within == SubSeq(s, m.within, m.end - 1)
     IN /\ match' = m
        /\ processed_footnotes' = Append(processed_footnotes, footnote_name)
        /\ IF ~ Has(footnotes, footnote_name)
           THEN /\ footnotes_without_references' =
                     Append(footnotes_without_references, footnote_name)
                /\ processed_content' =
                     processed_content \o content_before \o Unreferenced(s, m)
           ELSE /\ processed_content' =
                     processed_content \o content_before
                       \o FootnoteParagraph(Get(footnotes, footnote_name), content_within)
                /\ UNCHANGED footnotes_without_references
        /\ idx' = idx + 1
  /\ UNCHANGED << content, original, run, pc, ref_matches, footnote_matches,
                  broke, footnotes, footnote_heading_pos, first_footnote,
                  content_with_references_processed, warnings >>

\* lines 196-201
ReferencesWithoutFootnotes(d, processed) == SelectNotIn(Names(d), processed)

\* line 193: the text after the match the name `match` is bound to
ContentAfter(s, m) == CharSlice(s, m.endc)

\* lines 193-217: the rest of the content, the warnings, the store
FootEnd ==
  /\ pc = "foots" /\ idx > Len(footnote_matches)
  /\ LET content_after == ContentAfter(content_with_references_processed, match)
         references_without_footnotes ==
           ReferencesWithoutFootnotes(footnotes, processed_footnotes)
         w1 == IF Len(references_without_footnotes) > 0
               THEN <<Warning("references_without_footnotes", 0,
                              references_without_footnotes)>>
               ELSE <<>>
         w2 == IF Len(footnotes_without_references) > 0
               THEN <<Warning("footnotes_without_references", 0,
                              footnotes_without_references)>>
               ELSE <<>>
     IN /\ processed_content' = processed_content \o content_after
        /\ warnings' = warnings \o w1 \o w2
        /\ content' = processed_content \o content_after
        /\ pc' = "done"
  /\ UNCHANGED << original, run, ref_matches, footnote_matches, idx, broke,
                  footnotes, footnote_heading_pos, first_footnote, match,
                  content_with_references_processed, processed_footnotes,
                  footnotes_without_references >>

\* lines 232-236: the generator hands the same item to link_footnotes again
Rerun ==
  /\ pc = "done" /\ run < MaxRuns
  /\ run' = run + 1
  /\ original' = content
  /\ pc' = "start"
  /\ ref_matches' = <<>>
  /\ footnote_matches' = <<>>
  /\ idx' = 1
  /\ broke' = FALSE
  /\ footnotes' = <<>>
  /\ footnote_heading_pos' = -1
  /\ processed_content' = <<>>
  /\ first_footnote' = NoMatch
  /\ match' = NoMatch
  /\ content_with_references_processed' = <<>>
  /\ processed_footnotes' = <<>>
  /\ footnotes_without_references' = <<>>
  /\ warnings' = <<>>
  /\ UNCHANGED content

Next == Scan \/ RefStep \/ RefEnd \/ FootStep \/ FootEnd \/ Rerun

Spec == Init /\ [][Next]_vars
\* ============================================================ properties
\* What the properties say about a content is read off the content itself.
HeadingIndex(s) ==
  LET hits == {i \in 1..Len(s) : IsHeading(s[i])}
  IN IF hits = {} THEN 0 ELSE CHOOSE x \in hits : \A y \in hits : x <= y

HasMarker(s) == \E i \in 1..Len(s) : IsMarker(s[i])
HasHeading(s) == HeadingIndex(s) # 0
\* a <p>...</p> paragraph that begins with a marker, at index i
BlockAt(s, i) ==
  /\ i + 1 <= Len(s) /\ IsPOpen(s[i]) /\ IsMarker(s[i + 1])
  /\ \E j \in (i + 2)..Len(s) : IsPClose(s[j])
HasBlock(s) == \E i \in 1..Len(s) : BlockAt(s, i)
HasBlockAfterHeading(s) ==
  HasHeading(s) /\ \E i \in HeadingIndex(s)..Len(s) : BlockAt(s, i)

\* the in-text citations: indices of the markers located before the heading
InTextAt(s, j) == HasHeading(s) /\ j < HeadingIndex(s) /\ IsMarker(s[j])
RECURSIVE CitedKeysUpTo(_, _)
CitedKeysUpTo(s, n) ==
  IF n = 0 THEN <<>>
  ELSE IF InTextAt(s, n) THEN Append(CitedKeysUpTo(s, n - 1), s[n].key)
  ELSE CitedKeysUpTo(s, n - 1)
CitedKeys(s) == CitedKeysUpTo(s, Len(s))

RECURSIVE FirstAppearance(_)
FirstAppearance(ks) ==
  IF ks = <<>> THEN <<>>
  ELSE LET front == FirstAppearance(SubSeq(ks, 1, Len(ks) - 1))
       IN IF InSeq(ks[Len(ks)], front) THEN front ELSE Append(front, ks[Len(ks)])

IndexOf(x, sq) == CHOOSE i \in 1..Len(sq) : sq[i] = x
\* the citation at index j is the Occurrence(s, j)-th citation of its key
Occurrence(s, j) ==
  Cardinality({i \in 1..j : IsMarker(s[i]) /\ s[i].key = s[j].key})

Finished == pc \in {"done", "raised"}
\* the call went past its early returns and stored a rewritten content
Rewrote == pc = "done" /\ footnote_heading_pos # -1
IsLink(tok) == tok.t = "cite" /\ tok.o = 0
IsNote(tok) == tok.t = "pid" /\ tok.o = 0
IsBackLink(tok) == tok.t = "bl" /\ tok.o = 0

\* C1: link_footnotes never raises; every call returns, with the content
\* unchanged or rewritten, whatever the arrangement of the content and
\* however often a key is cited.
C1_NeverRaises == pc # "raised"

\* C2: when the rewrite proceeds no text is lost by the footnote pass: the
\* text after the last footnote block matched in the pass-2 result is copied
\* to the output unchanged, and when the footnote pass matches no block the
\* whole pass-2 result is the output.
C2_NoTextLost ==
  Rewrote =>
    LET s == content_with_references_processed
        n == Len(footnote_matches)
    IN IF n = 0
       THEN content = s
       ELSE LET tail == SubSeq(s, footnote_matches[n].end + 1, Len(s))
            IN /\ Len(content) >= Len(tail)
               /\ SubSeq(content, Len(content) - Len(tail) + 1, Len(content)) = tail

\* C3: a content with a citation marker but without a Footnotes heading, or
\* without a footnote block at or after the heading, is returned exactly
\* unchanged with exactly one warning.
C3_StructuralMismatchAborts ==
  ( /\ Finished /\ run = 1
    /\ HasMarker(original)
    /\ (~ HasHeading(original) \/ ~ HasBlockAfterHeading(original)) )
  => (pc = "done" /\ content = original /\ Len(warnings) = 1)

\* C4 (as stated): after a rewrite the href of every rewritten citation link
\* is the id of some rewritten footnote paragraph of the output.
C4_EveryHrefHasAnchor ==
  (Rewrote /\ run = 1) =>
    \A i \in 1..Len(content) :
      IsLink(content[i]) =>
        \E j \in 1..Len(content) :
          IsNote(content[j]) /\ content[j].id = content[i].href

\* C4 (amended): the href of every rewritten citation link whose key has a
\* footnote block matched by the footnote pass is the id of a rewritten
\* footnote paragraph of the output.
C4_DefinedHrefHasAnchor ==
  (Rewrote /\ run = 1) =>
    \A d \in 1..Len(footnotes) :
      InSeq(footnotes[d].name, processed_footnotes) =>
        \A i \in 1..Len(content) :
          (IsLink(content[i]) /\ content[i].num = footnotes[d].fn.num) =>
            /\ content[i].href = <<"note-", footnotes[d].fn.num>>
            /\ \E j \in 1..Len(content) :
                 IsNote(content[j]) /\ content[j].id = content[i].href

C4_Witness ==
  /\ Rewrote /\ run = 1
  /\ \E d \in 1..Len(footnotes) :
       /\ InSeq(footnotes[d].name, processed_footnotes)
       /\ \E i \in 1..Len(content) :
            IsLink(content[i]) /\ content[i].num = footnotes[d].fn.num
  /\ \E d \in 1..Len(footnotes) :
       ~ InSeq(footnotes[d].name, processed_footnotes)

\* C5: the k-th distinct key, in order of first appearance among the markers
\* before the heading, has ordinal k; later citations of the key reuse it;
\* markers at or after the heading create no ordinal; the footnote blocks
\* play no part.
C5_OrdinalAssignment ==
  LET first == FirstAppearance(CitedKeys(original))
  IN /\ Len(footnotes) <= Len(first)
     /\ \A k \in 1..Len(footnotes) :
          footnotes[k].name = first[k] /\ footnotes[k].fn.num = k
     /\ (pc = "foots" \/ Rewrote) =>
          /\ Len(footnotes) = Len(first)
          /\ \A j \in 1..Len(original) :
               InTextAt(original, j) =>
                 LET tok == content_with_references_processed[j]
                 IN IsLink(tok) /\ tok.num = IndexOf(original[j].key, first)

C5_Witness ==
  /\ Rewrote /\ run = 1
  /\ Len(footnotes) = 2
  /\ \E k \in 1..2 : footnotes[k].fn.ref_count = 2
  /\ Len(processed_footnotes) = 2
  /\ processed_footnotes[1] = footnotes[2].name
  /\ processed_footnotes[2] = footnotes[1].name
\* index in s of the q-th in-text citation of a key
CitationIndex(s, key, q) ==
  CHOOSE j \in 1..Len(s) :
    InTextAt(s, j) /\ s[j].key = key /\ Occurrence(s, j) = q

FirstCloseAfter(s, j) ==
  LET ends == {e \in (j + 1)..Len(s) : IsPClose(s[e])}
  IN CHOOSE x \in ends : \A y \in ends : x <= y

EntryOfNote(tok) ==
  CHOOSE d \in 1..Len(footnotes) : footnotes[d].fn.html_id = tok.id

\* keys of the footnote blocks matched by the footnote pass, in order
BlockKeys ==
  [i \in 1..Len(footnote_matches) |->
     content_with_references_processed[footnote_matches[i].pos].key]

\* C6: the rewritten paragraph of a footnote cited n >= 1 times carries
\* exactly n back-links in citation order, the i-th pointing at the id
\* generated for the i-th citation of its key; the hrefs are pairwise
\* distinct and name ids present in the output; one citation shows a bare ^,
\* several show ^a, ^b, ...; one space precedes the group.
C6_BackLinks ==
  (Rewrote /\ run = 1) =>
    /\ Cardinality({j \in 1..Len(content) : IsNote(content[j])})
         = Cardinality({i \in 1..Len(BlockKeys) : Has(footnotes, BlockKeys[i])})
    /\ \A j \in 1..Len(content) :
         IsNote(content[j]) =>
           LET d == footnotes[EntryOfNote(content[j])]
               n == d.fn.ref_count
               e == FirstCloseAfter(content, j)
           IN /\ n >= 1
              /\ {i \in j..e : IsBackLink(content[i])} = (e - n)..(e - 1)
              /\ IsSpace(content[e - n - 1])
              /\ \A q \in 1..n :
                   LET link == content[e - n - 1 + q]
                       cited == content_with_references_processed[
                                  CitationIndex(original, d.name, q)]
                   IN /\ link.href = cited.id
                      /\ link.glyph = (IF n = 1 THEN "" ELSE REF_SUBNAMES[q])
                      /\ \E i \in 1..Len(content) :
                           IsLink(content[i]) /\ content[i].id = link.href
              /\ \A q1, q2 \in 1..n :
                   q1 # q2 => content[e - n - 1 + q1].href # content[e - n - 1 + q2].href

C6_Witness ==
  /\ Rewrote /\ run = 1
  /\ \E j \in 1..Len(content) :
       IsNote(content[j]) /\ footnotes[EntryOfNote(content[j])].fn.ref_count = 1
  /\ \E j \in 1..Len(content) :
       IsNote(content[j]) /\ footnotes[EntryOfNote(content[j])].fn.ref_count = 2

\* two citations of [ref5] and its footnote
TwoOfFive == <<Ref(5), Ref(5), Heading, POpen, Ref(5), Txt, PClose>>

C8_RerunNoOp == (pc = "done" /\ run > 1) => content = original

WarningsOf(msg) == SelectSeq(warnings, LAMBDA w : w.msg = msg)

\* after a completed rewrite the "Reference(s) ... have no footnotes" warning
\* is emitted exactly when a cited key has no footnote block in the footnote
\* pass and lists those keys once each; the "Footnote(s) ... have no
\* references" warning is emitted exactly when a block's key has no in-text
\* citation and lists the keys of those blocks
C9_WarningsExact ==
  (Rewrote /\ run = 1) =>
    LET cited == FirstAppearance(CitedKeys(original))
        orphanRefs == SelectSeq(cited, LAMBDA k : ~ InSeq(k, BlockKeys))
        orphanFoots == SelectSeq(BlockKeys, LAMBDA k : ~ InSeq(k, cited))
        refW == WarningsOf("references_without_footnotes")
        footW == WarningsOf("footnotes_without_references")
    IN /\ Len(refW) = (IF orphanRefs = <<>> THEN 0 ELSE 1)
       /\ \A i \in 1..Len(refW) : refW[i].names = orphanRefs
       /\ Len(footW) = (IF orphanFoots = <<>> THEN 0 ELSE 1)
       /\ \A i \in 1..Len(footW) : footW[i].names = orphanFoots
       /\ Len(warnings) = Len(refW) + Len(footW)

\* an orphan citation is a link after pass 2 and in the stored content
C9_OrphanStillLinked ==
  (Rewrote /\ run = 1) =>
    \A j \in 1..Len(original) :
      (InTextAt(original, j) /\ ~ InSeq(original[j].key, BlockKeys)) =>
        /\ IsLink(content_with_references_processed[j])
        /\ \E i \in 1..Len(content) :
             content[i] = content_with_references_processed[j]

\* C9: the two consistency warnings are exact (each emitted exactly when it
\* applies, listing exactly the keys concerned; a key cited and defined is in
\* neither) and an orphan citation is still a link in the rewritten content.
C9_Consistency == C9_WarningsExact /\ C9_OrphanStillLinked

\* C10: for a footnote block whose key has no in-text citation the footnote
\* pass emits the text before the block once and the block once: the output
\* segment of that match equals its input segment.
C10_OrphanPassThrough ==
  [][ ( /\ pc = "foots" /\ idx <= Len(footnote_matches)
        /\ ~ Has(footnotes, BlockKeys[idx])
        /\ idx' = idx + 1 )
      => processed_content' =
           processed_content
             \o SubSeq(content_with_references_processed,
                       footnote_matches[idx].start, footnote_matches[idx].end) ]_vars

====
